------------------------- MODULE RunReaderInvariant -------------------------
(***************************************************************************)
(* What the rows say together, and what the reader may still count on: the *)
(* inductive invariant behind ReadsAgree, SuccessIsWhole, ClosedIsAtRest   *)
(* and JobsAreBeginnings.                                                  *)
(***************************************************************************)
EXTENDS RunReader, OrchestratorRowInvariant

(* What the row of something that went well says; after a failed call it   *)
(* may be behind.                                                          *)
Good == {"succeeded"} \cup (IF faults = 0 THEN {} ELSE {"running", "pending"})

(* The goroutine of step t has ended, and without an error.                *)
DoneWell(t) == stepPc[t] = "done" /\ ~stepErr[t]

(* A final status in the rows of a step is the result of its goroutine,    *)
(* and is written once.                                                    *)
ResultPart(s) ==
  /\ stepPc[s] \in {"poll", "report"} => execRow[s].status \in {"pending", "running"}
  /\ PhaseTerminal(execRow[s].status) =>
       \/ stepPc[s] = "dead"
       \/ /\ stepPc[s] \in {"finish", "done"}
          /\ execRow[s].status = "succeeded" <=> ~stepErr[s]
  /\ StageTerminal(stepRow[s].status) =>
       stepPc[s] = "done" /\ (stepRow[s].status = "succeeded" <=> ~stepErr[s])
  /\ stepPc[s] \in {"finish", "done"} /\ ~stepErr[s] =>
       \/ execRow[s].status \in Good
       \/ ctxDone /\ execRow[s].status \in {"running", "pending"}
  /\ DoneWell(s) => stepRow[s].status \in Good

(* The job of a stage the configuration has, and that Run is through with. *)
JobGood(st) == StepCount(st) > 0 => jobRow[st].status \in Good

(* Behind the frontier everything went well, and a success is a success of *)
(* every part.                                                             *)
WholeInv ==
  /\ Advancing => \A t \in Steps : Past(t) => DoneWell(t)
  /\ pc = "register" => DoneWell(<<Build, cursor>>)
  /\ \A st \in Stages :
       /\ StepCount(st) = 0 => jobRow[st] = NoRow
       /\ st < stage => JobGood(st)
       /\ jobRow[st].status = "succeeded" => \A t \in Steps : t[1] = st => DoneWell(t)
  /\ (pc = "decide" /\ ~failed) \/ verdict = "success" =>
       (\A st \in Stages : JobGood(st)) /\ \A t \in Steps : DoneWell(t)
  /\ verdict = "success" => \A t \in Steps : execRow[t].status \in Good
  /\ runRow.status = "success" => verdict = "success"

ViewInv == VerdictInv /\ WholeInv /\ \A s \in Steps : ResultPart(s)

-----------------------------------------------------------------------------
(* The statuses, and "stored", that a row does not leave any more.         *)
Final(status) == RunTerminal(status) \/ StageTerminal(status) \/ status = "stored"

(* The places a question asks for.                                         *)
Covers(asked, id) ==
  \/ asked = <<"runs">> /\ id = <<>>
  \/ asked = <<"jobs">> /\ Len(id) = 1
  \/ \E st \in Stages :
       \/ asked = <<"job", st>> /\ id = <<st>>
       \/ asked = <<"steps", st>> /\ Len(id) = 2 /\ id[1] = st
       \/ asked = <<"artifacts", st>> /\ Len(id) = 3 /\ id[1] = st /\ id[3] # 0
  \/ \E s \in Steps :
       \/ asked = <<"step", s>> /\ id = s
       \/ asked = <<"executions", s>> /\ id = <<s[1], s[2], 0>>
  \/ \E a \in Declared : asked = <<"artifact", a>> /\ id = <<Build, a[1], a[2]>>

(* What the reader holds is still true where it is final, and all of it is *)
(* once the run is known to be over.                                       *)
ReaderInv ==
  /\ \A r \in answer.rows : Final(r.status) => r \in Table
  /\ closed =>
       /\ RunTerminal(runRow.status)
       /\ answer.rows = {r \in Table : Covers(answer.asked, r.id)}
  /\ JobsAreBeginnings
=============================================================================
