SPECIFICATION Spec
CONSTANTS
  binary = binary
  image = image
  none = none
  ArtifactTypes <- MCTypes
  NoArtifact = none
  BuildSteps <- BuildOne
  TestSteps <- NoTests
  DeployArtifact = none
  MaxFaults = 0
INVARIANT TerminalStepsHaveFinishedAt
