---------------------------- MODULE PipelineConfig ----------------------------
(***************************************************************************)
(* Loading .shipinator.yaml: which documents Load turns into the           *)
(* configuration of a run.  A document is what the YAML decoder makes of   *)
(* a file; of a text only whether it is non-empty matters, except of a     *)
(* type.                                                                   *)
(***************************************************************************)
CONSTANTS
  Documents,  \* the documents a repository may bring
  Absent      \* a key that is left out, or null

OutputTypes   == {"binary", "oci_image", "helm_chart"}
ArtifactKinds == {"coverage", "test_report"}

VARIABLES document, loaded

vars == <<document, loaded>>

Error == [error |-> TRUE]

Init == document \in Documents /\ loaded = Absent

-----------------------------------------------------------------------------
(* The rules of the validate tags.                                         *)

(* dive: what a list that may be left out or empty holds.                  *)
Elements(list) == IF list = Absent THEN {} ELSE {list[i] : i \in DOMAIN list}

\* Slip: one required_if for both types that need a path.
PathForBinary(out) == out.type = "binary" => out.path

(* required_if=Type binary,required_if=Type helm_chart.                    *)
PathRule(out) == out.type \in {"binary", "helm_chart"} => out.path

BuildOutputOK(out) ==
  out.type \in OutputTypes /\ PathRule(out) /\ (out.type = "oci_image" => out.ref)

BuildStepOK(step) == step.name /\ step.run /\ \A out \in Elements(step.outputs) : BuildOutputOK(out)

TestArtifactOK(art) == art.type \in ArtifactKinds /\ art.path

TestStepOK(step) == step.name /\ step.run /\ \A art \in Elements(step.artifacts) : TestArtifactOK(art)

DeployOK(deploy) == deploy.artifact \in OutputTypes /\ deploy.target /\ deploy.namespace

(* required,min=1: the steps of a stage are neither null nor empty.        *)
SomeSteps(stage) == Elements(stage.steps) # {}

(* A nil pointer is passed over: omitempty.                                *)
ConfigOK(cfg) ==
  /\ cfg.build # Absent =>
       SomeSteps(cfg.build) /\ \A step \in Elements(cfg.build.steps) : BuildStepOK(step)
  /\ cfg.test # Absent =>
       SomeSteps(cfg.test) /\ \A step \in Elements(cfg.test.steps) : TestStepOK(step)
  /\ cfg.deploy # Absent => DeployOK(cfg.deploy)

(* Decode: one YAML document, and every key is a field (KnownFields).      *)
Decodes(doc) == doc.yaml /\ ~doc.unknownKey

Load(doc) ==
  IF /\ Decodes(doc)
     /\ \E stage \in {"build", "test", "deploy"} : doc[stage] # Absent
     /\ ConfigOK(doc)
  THEN [error |-> FALSE, build |-> doc.build, test |-> doc.test, deploy |-> doc.deploy]
  ELSE Error

(* The file may not be there, or not be readable.                          *)
LoadFromFile ==
  /\ loaded = Absent
  /\ loaded' \in {Load(document), Error}
  /\ UNCHANGED document

Done == loaded # Absent /\ UNCHANGED vars

Next == LoadFromFile \/ Done

Spec == Init /\ [][Next]_vars

-----------------------------------------------------------------------------
(* What the stages take from a configuration without a look at it.         *)

Accepted == loaded # Absent /\ ~loaded.error

Commands(stage) == {stage.steps[i] : i \in DOMAIN stage.steps}

(* executeStages runs a stage whose pointer is not nil and the three Run   *)
(* methods trust what they find: a stage has at least one step, every step *)
(* a name for its row and a command for its pod, every output a type that  *)
(* deploy can ask for and, when it is a file, the path the executor        *)
(* collects it from, and deployCmd has all of its arguments.               *)
AcceptedCanRun ==
  Accepted =>
    /\ {loaded.build, loaded.test, loaded.deploy} # {Absent}
    /\ \A stage \in {loaded.build, loaded.test} \ {Absent} :
         /\ Commands(stage) # {}
         /\ \A step \in Commands(stage) : step.name /\ step.run
    /\ loaded.build # Absent =>
         \A step \in Commands(loaded.build) : step.outputs # Absent =>
           \A i \in DOMAIN step.outputs :
             LET out == step.outputs[i]
             IN out.type \in OutputTypes /\ IF out.type = "oci_image" THEN out.ref ELSE out.path
    /\ loaded.deploy # Absent =>
         /\ loaded.deploy.artifact \in OutputTypes
         /\ loaded.deploy.target /\ loaded.deploy.namespace
=============================================================================
