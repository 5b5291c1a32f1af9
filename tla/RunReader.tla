------------------------------ MODULE RunReader ------------------------------
(***************************************************************************)
(* A reader of a run's rows beside the call of Orchestrator.Run that       *)
(* writes them: the query methods of the Postgres stores.  Each method is  *)
(* one SELECT, a snapshot of its own, but a view of a run takes several,   *)
(* and the call goes on between them.                                      *)
(*                                                                         *)
(* A row is named by its place: <<>> is the run, <<stage>> a job,          *)
(* <<stage, i>> a step, <<stage, i, 0>> its execution and                  *)
(* <<Build, i, j>> an artifact.                                            *)
(***************************************************************************)
EXTENDS OrchestratorProperties

VARIABLES
  answer,  \* what the reader's last call returned: the question and the rows
  closed   \* a row of the run read so far was terminal

readerVars == <<answer, closed>>

Nowhere == [asked |-> <<"nothing">>, rows |-> {}]

ReaderInit == Init /\ answer = Nowhere /\ closed = FALSE

Row(id, status) == [id |-> id, status |-> status]

(* The rows that are there.  An artifact has no status.                    *)
Table ==
  {Row(<<>>, runRow.status)}
    \cup {Row(<<st>>, jobRow[st].status) : st \in {t \in Stages : jobRow[t].status # "absent"}}
    \cup {Row(s, stepRow[s].status) : s \in {t \in Steps : stepRow[t].status # "absent"}}
    \cup {Row(<<s[1], s[2], 0>>, execRow[s].status) :
            s \in {t \in Steps : execRow[t].status # "absent"}}
    \cup {Row(<<Build, a[1], a[2]>>, "stored") : a \in Registered}

(* One SELECT returns rows of the tables as they are at one moment.        *)
Select(asked, rows) ==
  /\ answer' = [asked |-> asked, rows |-> rows]
  /\ closed' = (closed \/ \E r \in rows : r.id = <<>> /\ RunTerminal(r.status))
  /\ UNCHANGED vars

(* WHERE id = $1.  A reader's ids are those of rows that are there:        *)
(* nothing deletes them.                                                   *)
One(asked, id) ==
  \E r \in Table : r.id = id /\ Select(asked, {r})

-----------------------------------------------------------------------------
(* The query methods.  Two that can only return the same row of the one    *)
(* run, or of the one execution of a step, share their question.           *)

RunByID       == One(<<"runs">>, <<>>)
RunByPipeline == Select(<<"runs">>, {r \in Table : r.id = <<>>})

\* An empty list is an answer the reader makes nothing of.
RunByStatus ==
  \E status \in RunStates :
    IF runRow.status = status THEN Select(<<"runs">>, {r \in Table : r.id = <<>>})
    ELSE Select(<<"nothing">>, {})

JobByID   == \E st \in Stages : One(<<"job", st>>, <<st>>)
JobsByRun == Select(<<"jobs">>, {r \in Table : Len(r.id) = 1})

StepByID   == \E s \in Steps : One(<<"step", s>>, s)
StepsByJob == \E st \in Stages :
                /\ jobRow[st].status # "absent"
                /\ Select(<<"steps", st>>, {r \in Table : Len(r.id) = 2 /\ r.id[1] = st})

ExecutionByID   == \E s \in Steps : One(<<"executions", s>>, <<s[1], s[2], 0>>)
ExecutionByStep == \E s \in Steps :
                     /\ stepRow[s].status # "absent"
                     /\ Select(<<"executions", s>>, {r \in Table : r.id = <<s[1], s[2], 0>>})

ArtifactByID   == \E a \in Declared : One(<<"artifact", a>>, <<Build, a[1], a[2]>>)
ArtifactsByJob == \E st \in Stages :
                    /\ jobRow[st].status # "absent"
                    /\ Select(<<"artifacts", st>>,
                              {r \in Table : Len(r.id) = 3 /\ r.id[1] = st /\ r.id[3] # 0})

Read ==
  \/ RunByID \/ RunByPipeline \/ RunByStatus \/ JobByID \/ JobsByRun \/ StepByID \/ StepsByJob
  \/ ExecutionByID \/ ExecutionByStep \/ ArtifactByID \/ ArtifactsByJob

ReaderNext == (Next /\ UNCHANGED readerVars) \/ Read

ReaderSpec == ReaderInit /\ [][ReaderNext]_<<vars, readerVars>>

-----------------------------------------------------------------------------
(* What the reader may conclude.                                           *)

(* Row b is a part of what row a is about.                                 *)
PartOf(b, a) == Len(b.id) > Len(a.id) /\ SubSeq(b.id, 1, Len(a.id)) = a.id

Contradict(a, b) ==
  \/ PartOf(b, a) /\ a.status \in {"success", "succeeded"} /\ b.status = "failed"
  \/ PartOf(b, a) /\ Len(a.id) = 2 /\ a.status = "failed" /\ b.status = "succeeded"

(* A view put together from several queries, in whichever order and with   *)
(* any progress between them, never shows a success with a failed part,    *)
(* nor a failed step with an execution that succeeded: executions, steps,  *)
(* jobs and the run are written in this order, each once it is certain.    *)
ReadsAgree ==
  [][\A a \in answer.rows, b \in answer'.rows : ~Contradict(a, b) /\ ~Contradict(b, a)]_readerVars

(* What every part of a success must be found to be: there, and succeeded; *)
(* after a failed call it may be behind, but not failed.                   *)
FoundGood(id, rows) ==
  \E r \in rows : r.id = id /\
    r.status \in {"succeeded", "stored"} \cup (IF faults = 0 THEN {} ELSE {"running", "pending"})

(* A reader that has seen "success" finds the run whole in every later     *)
(* query: all jobs of the configuration, their steps and executions, and   *)
(* the declared artifacts, each with its own success.                      *)
SuccessIsWhole ==
  [][Row(<<>>, "success") \in answer.rows =>
       /\ \A st \in Stages :
            answer'.asked = <<"jobs">> /\ StepCount(st) > 0 => FoundGood(<<st>>, answer'.rows)
       /\ \A s \in Steps :
            /\ answer'.asked = <<"steps", s[1]>> => FoundGood(s, answer'.rows)
            /\ answer'.asked = <<"executions", s>> => FoundGood(<<s[1], s[2], 0>>, answer'.rows)
       /\ \A a \in Declared :
            answer'.asked = <<"artifacts", Build>> => FoundGood(<<Build, a[1], a[2]>>, answer'.rows)
    ]_readerVars

(* Once the run has been seen terminal its rows have come to rest: the     *)
(* same question gets the same answer from then on (Run writes the run's   *)
(* row last, after runParallel has joined every step).                     *)
ClosedIsAtRest ==
  [][closed /\ answer'.asked = answer.asked => answer'.rows = answer.rows]_readerVars

(* A list of jobs shows a beginning of the configured stages: what comes   *)
(* before a listed job is listed too, and has succeeded (unless the write  *)
(* of its final state failed, then it may still say "running").            *)
JobsAreBeginnings ==
  answer.asked = <<"jobs">> =>
    \A r \in answer.rows : \A st \in Stages :
      st < r.id[1] /\ StepCount(st) > 0 => FoundGood(<<st>>, answer.rows)
=============================================================================
