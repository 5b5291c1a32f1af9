----------------------- MODULE OrchestratorInvariant ------------------------
(***************************************************************************)
(* The inductive invariant behind StageGate, NoFalseSuccess and            *)
(* JoinBeforeClose: how the control of Run, the control of the steps'      *)
(* goroutines and the Jobs in the cluster hang together.  OwnInv is the    *)
(* part that holds beside another call of Run on the same run as well.     *)
(***************************************************************************)
EXTENDS OrchestratorProperties

(* Run is inside the step loop of a stage.                                 *)
InStage == pc \in {"resolve", "launch", "wait", "register", "finishJob"}

(* Run is still making progress through the stages.                        *)
Advancing == ~failed /\ (InStage \/ pc \in {"createJob", "startJob"})

(* The loops of Run have left step t behind.                               *)
Past(t) == t[1] < stage \/ (t[1] = stage /\ InStage /\ t[2] < cursor)

(* The loops of Run have not reached step t yet.                           *)
Ahead(t) ==
  \/ t[1] > stage
  \/ t[1] = stage /\ (InStage => t[2] >= cursor /\ ~(pc \in {"wait", "register"} /\ t \in InBatch))

(* One step: nothing is submitted before "submit", and a goroutine that    *)
(* ends well has seen its command exit 0.                                  *)
StepInv ==
  \A s \in Steps :
    /\ stepPc[s] \in {"idle", "create", "start", "submit"} => kjob[s] = NoJob
    /\ stepPc[s] = "report" /\ phase[s] = "succeeded" => Passed(s)
    /\ stepPc[s] \in {"finish", "done"} /\ ~stepErr[s] => Passed(s)

(* Where Run is, and what its stage and cursor then point at.              *)
ControlInv ==
  /\ pc \in {"createJob", "startJob"} \/ InStage => stage \in Stages /\ StepCount(stage) > 0
  /\ InStage => cursor >= 1
  /\ pc \in {"resolve", "launch", "wait", "register"} => ~failed /\ cursor <= StepCount(stage)
  /\ pc \in {"createJob", "startJob"} => ~failed
  /\ pc = "startJob" => jobRow[stage].status # "absent"
  /\ pc = "start" => ~failed /\ stage = 0
  /\ pc = "register" => stage = Build
  /\ pc = "finishJob" /\ ~failed => cursor > StepCount(stage)
  /\ InStage /\ ~failed => jobRow[stage].status = "running"

(* The frontier: behind it every command has exited 0 and its outputs are  *)
(* registered, ahead of it nothing has been started, on it are the steps   *)
(* in flight.                                                              *)
FrontierInv ==
  /\ \A s \in Steps : InFlight(s) => pc = "wait" /\ s \in InBatch
  /\ pc = "start" => \A t \in Steps : stepPc[t] = "idle"
  /\ Advancing => \A t \in Steps :
       /\ Past(t) => Passed(t)
       /\ Past(t) /\ t[1] = Build => Outputs(t[2]) \subseteq Registered
       /\ Ahead(t) => stepPc[t] = "idle"
  /\ pc = "register" =>
       /\ Passed(<<Build, cursor>>)
       /\ \A j \in 1..Len(BuildSteps[cursor]) : j < out => <<cursor, j>> \in Registered

(* What a successful end rests on.                                         *)
AllDone == (\A s \in Steps : Passed(s)) /\ Declared \subseteq Registered

EndInv ==
  /\ pc = "decide" /\ ~failed => AllDone
  /\ verdict = "success" => AllDone

(* What a call of Run keeps by itself: nothing here depends on the row of  *)
(* the run, which the code writes and never reads.                         *)
OwnInv ==
  /\ TypeOK
  /\ StepInv
  /\ ControlInv
  /\ FrontierInv
  /\ EndInv
  /\ StageGate

(* The verdict is passed once, between Decide and Finalize.                *)
VerdictInv ==
  /\ pc = "finalize" => verdict \in {"success", "failed", "canceled"}
  /\ pc \notin {"finalize", "returned", "crashed"} => verdict = "pending"

(* What the row of the run says, as long as no other call writes it.       *)
RunRowSays ==
  /\ Advancing => runRow.status = "running"
  /\ runRow.status = "success" => AllDone

Inv == OwnInv /\ RunRowSays
=============================================================================
