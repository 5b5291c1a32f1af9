SPECIFICATION Spec
CONSTANTS
  image = image
  none = none
  ArtifactTypes = {image}
  NoArtifact = none
  BuildSteps <- NoBuild
  TestSteps <- TestOne
  DeployArtifact = none
  MaxFaults = 0
PROPERTY EndedRunsStayEnded
