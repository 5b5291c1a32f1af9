SPECIFICATION Spec
CONSTANTS
  image = image
  none = none
  ArtifactTypes = {image}
  NoArtifact = none
  BuildSteps <- NoBuild
  TestSteps <- TestOne
  DeployArtifact = none
  MaxFaults = 1
INVARIANTS
  SuccessWasEarned
  RowIsAVerdict
