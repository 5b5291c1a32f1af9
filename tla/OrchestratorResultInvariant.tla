-------------------- MODULE OrchestratorResultInvariant ---------------------
(***************************************************************************)
(* What a run leaves behind: the order of the artifact rows, the groups of *)
(* the step rows and, as long as no call fails by itself, how far each row *)
(* has come when Run returns.  The inductive invariants behind             *)
(* DeploysFirstDeclared, GroupsAreBlocks and ReturnAgrees.                 *)
(***************************************************************************)
EXTENDS OrchestratorRowInvariant

(* Output d is declared before output e.                                   *)
DeclaredBefore(d, e) == d[1] < e[1] \/ (d[1] = e[1] /\ d[2] < e[2])

(* Artifact rows stand in the order of declaration, and Buildinator's loop *)
(* is always ahead of them.                                                *)
ArtifactInv ==
  /\ Registered \subseteq Declared
  /\ \A k, l \in DOMAIN artifacts : k < l => DeclaredBefore(artifacts[k], artifacts[l])
  /\ pc = "start" \/ (stage = Build /\ pc \in {"createJob", "startJob"}) => artifacts = <<>>
  /\ stage = Build /\ pc \in {"launch", "wait"} =>
       \A k \in DOMAIN artifacts : artifacts[k][1] < cursor
  /\ pc = "register" =>
       out >= 1 /\ \A k \in DOMAIN artifacts : DeclaredBefore(artifacts[k], <<cursor, out>>)
  /\ pc = "resolve" => stage = Deploy

(* A batch starts where its block starts.                                  *)
BlockStart(i) == i = 1 \/ ~TestSteps[i - 1] \/ ~TestSteps[i]

(* The group of a step is the first step of its block.                     *)
GroupPart(s) ==
  stepRow[s].status # "absent" =>
    LET g == stepRow[s].group
    IN IF s[1] = Test /\ TestSteps[s[2]]
       THEN /\ g \in 1..s[2] /\ \A k \in g..s[2] : TestSteps[k]
            /\ g = 1 \/ ~TestSteps[g - 1]
       ELSE g = 0

GroupInv ==
  /\ stage = Test /\ pc \in {"launch", "wait"} => BlockStart(cursor)
  /\ \A s \in Steps : GroupPart(s)

-----------------------------------------------------------------------------
(* As long as no call has failed by itself.                                *)

(* The run's row when Run is about to end, and when it has ended.          *)
RunEnd ==
  LET end == IF failed THEN "failed" ELSE "success"
  IN /\ pc \in {"decide", "finalize", "returned"} /\ ~failed => AllDone
     /\ pc = "finalize" => verdict = end \/ (ctxDone /\ verdict = "canceled")
     /\ pc = "returned" =>
          \/ runRow.status = end
          \/ ctxDone /\ runRow.status = "canceled"
          \/ /\ ctxDone /\ failed /\ runRow.status \in {"pending", "running"}
             /\ jobRow = [st \in Stages |-> NoRow]

(* A job that is not finished is the current one, or was cut off before it *)
(* had any step.                                                           *)
JobEnd(st) ==
  jobRow[st].status \in {"pending", "running"} =>
    \/ st = stage /\ (pc = "startJob" \/ InStage)
    \/ /\ ctxDone /\ failed /\ pc \in {"decide", "finalize", "returned"}
       /\ \A s \in Steps : s[1] = st => stepRow[s] = NoStepRow

(* A step that is not finished is in flight, or was cut off before Submit; *)
(* so is an execution, unless its goroutine gave it up.                    *)
StepEnd(s) ==
  /\ stepPc[s] # "dead"
  /\ stepRow[s].status \in {"pending", "running"} =>
       InFlight(s) \/ (ctxDone /\ kjob[s] = NoJob)
  /\ execRow[s].status \in {"pending", "running"} =>
       \/ stepPc[s] \in {"poll", "report"}
       \/ /\ ctxDone /\ stepPc[s] \in {"finish", "done"}
          /\ Passed(s) \/ (stepErr[s] /\ (stepPc[s] = "done" => stepRow[s].status = "failed"))

ReturnInv ==
  faults = 0 =>
    /\ RunEnd
    /\ \A st \in Stages : JobEnd(st)
    /\ \A s \in Steps : StepEnd(s)

ResultInv == ArtifactInv /\ GroupInv /\ ReturnInv
=============================================================================
