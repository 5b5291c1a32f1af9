-------------------------- MODULE MCPipelineConfig --------------------------
(***************************************************************************)
(* Documents for TLC: one stage is varied in everything, the two others    *)
(* are left out, good or bad.                                              *)
(***************************************************************************)
EXTENDS PipelineConfig, SequencesExt

CONSTANT absent

Lists(S) == {absent} \cup BoundedSeq(S, 1)

Types == OutputTypes \cup {"", "other"}
Kinds == {"coverage", "", "other"}

Outputs   == [type : Types, path : BOOLEAN, ref : BOOLEAN]
TestArts  == [type : Kinds, path : BOOLEAN]
Good      == [name |-> TRUE, run |-> TRUE, outputs |-> absent, artifacts |-> absent,
              parallel |-> FALSE]
Nameless  == [Good EXCEPT !.name = FALSE]

BuildStep == [name : BOOLEAN, run : BOOLEAN, outputs : Lists(Outputs)]
TestStep  == [name : BOOLEAN, run : BOOLEAN, parallel : BOOLEAN, artifacts : Lists(TestArts)]

(* One step of any kind, alone or behind a good one; a step with several   *)
(* outputs.                                                                *)
StepLists(S) ==
  {absent, <<>>} \cup {<<s>> : s \in S} \cup {<<Good, s>> : s \in S}

TwoOutputs == {<<[Good EXCEPT !.outputs = <<p, q>>]>> : p, q \in Outputs}

Stage(lists) == {absent} \cup {[steps |-> l] : l \in lists}

Builds  == Stage(StepLists(BuildStep) \cup TwoOutputs)
Tests   == Stage(StepLists(TestStep))
Deploys == {absent} \cup [artifact : Types, target : BOOLEAN, namespace : BOOLEAN]

FewSteps == {absent, [steps |-> <<Good>>], [steps |-> <<Nameless>>]}

GoodDeploy == [artifact |-> "binary", target |-> TRUE, namespace |-> TRUE]
FewDeploys == {absent, GoodDeploy, [GoodDeploy EXCEPT !.target = FALSE]}

MCDocuments ==
  LET Decoded(yaml, b, t, d) ==
        [yaml : yaml, unknownKey : BOOLEAN, build : b, test : t, deploy : d]
  IN Decoded({TRUE}, Builds, FewSteps, FewDeploys)
       \cup Decoded({TRUE}, FewSteps, Tests, FewDeploys)
       \cup Decoded({TRUE}, FewSteps, FewSteps, Deploys)
       \cup Decoded({FALSE}, FewSteps, FewSteps, FewDeploys)
=============================================================================
