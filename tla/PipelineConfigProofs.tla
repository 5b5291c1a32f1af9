------------------------- MODULE PipelineConfigProofs -------------------------
(***************************************************************************)
(* What Load accepts, the stages can run: for any documents.               *)
(***************************************************************************)
EXTENDS PipelineConfig, TLAPS

(* What is loaded is what Load makes of the document, or nothing.          *)
LoadInv == document \in Documents /\ loaded \in {Absent, Error, Load(document)}

(* Init, LoadFromFile and Done keep LoadInv: the document does not change  *)
(* after it was read.                                                      *)
LEMMA LoadInvariance == Spec => []LoadInv
<1>1. Init => LoadInv
  BY DEF Init, LoadInv
<1>2. LoadInv /\ [Next]_vars => LoadInv'
  BY DEF LoadInv, Next, LoadFromFile, Done, vars, Load, Error
<1> QED  BY <1>1, <1>2, PTL DEF Spec

(* Load, unfolded for a document it does not refuse.                       *)
LEMMA AcceptedDocument ==
  ASSUME LoadInv, Accepted
  PROVE  /\ ConfigOK(document)
         /\ \E stage \in {"build", "test", "deploy"} : document[stage] # Absent
         /\ loaded.build = document.build
         /\ loaded.test = document.test
         /\ loaded.deploy = document.deploy
<1>1. loaded = Load(document) /\ Load(document) # Error
  BY DEF LoadInv, Accepted, Error
<1> QED  BY <1>1 DEF Load

(* A pipeline configuration that was accepted has all that the Run methods *)
(* of the stages take for granted (the validate tags of config.go).        *)
THEOREM AcceptedConfigsRun == Spec => []AcceptedCanRun
<1>1. LoadInv => AcceptedCanRun
  <2> SUFFICES ASSUME LoadInv, Accepted PROVE AcceptedCanRun
    BY DEF AcceptedCanRun
  <2>1. /\ ConfigOK(document) /\ document \in Documents
        /\ loaded.build = document.build
        /\ loaded.test = document.test
        /\ loaded.deploy = document.deploy
        /\ {loaded.build, loaded.test, loaded.deploy} # {Absent}
    BY AcceptedDocument DEF LoadInv
  <2>2. ASSUME loaded.build # Absent
        PROVE  /\ Commands(loaded.build) # {}
               /\ \A step \in Commands(loaded.build) : BuildStepOK(step)
    BY <2>1, <2>2 DEF ConfigOK, SomeSteps, Elements, Commands
  <2>3. ASSUME loaded.test # Absent
        PROVE  /\ Commands(loaded.test) # {}
               /\ \A step \in Commands(loaded.test) : TestStepOK(step)
    BY <2>1, <2>3 DEF ConfigOK, SomeSteps, Elements, Commands
  <2>4. \A stage \in {loaded.build, loaded.test} \ {Absent} :
          /\ Commands(stage) # {}
          /\ \A step \in Commands(stage) : step.name /\ step.run
    BY <2>2, <2>3 DEF BuildStepOK, TestStepOK
  <2>5. ASSUME loaded.build # Absent, NEW step \in Commands(loaded.build),
               step.outputs # Absent, NEW i \in DOMAIN step.outputs
        PROVE  /\ step.outputs[i].type \in OutputTypes
               /\ IF step.outputs[i].type = "oci_image" THEN step.outputs[i].ref
                  ELSE step.outputs[i].path
    <3>1. BuildOutputOK(step.outputs[i])
      BY <2>5, <2>2 DEF BuildStepOK, Elements
    <3> QED  BY <3>1 DEF BuildOutputOK, PathRule, OutputTypes
  <2>6. loaded.deploy # Absent => DeployOK(loaded.deploy)
    BY <2>1 DEF ConfigOK
  <2> QED  BY <2>1, <2>4, <2>5, <2>6 DEF AcceptedCanRun, DeployOK
<1> QED  BY <1>1, LoadInvariance, PTL
=============================================================================
