--------------------------- MODULE GatedExecution ---------------------------
(***************************************************************************)
(* What a call of Orchestrator.Run does, seen by somebody who knows only   *)
(* the commands and the result: tasks are begun once, in an order, while   *)
(* the result is open; they end, or are killed, whenever they like; the    *)
(* result is given once, and "success" only when every task has passed.    *)
(* There are no rows, no goroutines and no polling.                        *)
(***************************************************************************)
CONSTANTS
  Tasks,  \* the commands
  Order   \* pairs <<t, s>>: t has to pass before s begins

VARIABLES
  task,   \* what has become of each task
  result  \* "open", or the result given

vars == <<task, result>>

Ends    == {"passed", "failed", "killed"}
Results == {"success", "failed", "canceled"}

Init ==
  /\ task = [s \in Tasks |-> "waiting"]
  /\ result = "open"

Begin(s) ==
  /\ result = "open"
  /\ task[s] = "waiting"
  /\ \A t \in Tasks : <<t, s>> \in Order => task[t] = "passed"
  /\ task' = [task EXCEPT ![s] = "running"]
  /\ UNCHANGED result

(* A task may end after the result has been given: a task of a run that is *)
(* failed or canceled can be left behind.                                  *)
End(s) ==
  /\ task[s] = "running"
  /\ \E e \in Ends : task' = [task EXCEPT ![s] = e]
  /\ UNCHANGED result

Conclude ==
  /\ result = "open"
  /\ result' \in Results
  /\ result' = "success" => \A s \in Tasks : task[s] = "passed"
  /\ UNCHANGED task

Next == (\E s \in Tasks : Begin(s) \/ End(s)) \/ Conclude

Spec == Init /\ [][Next]_vars
=============================================================================
