SPECIFICATION ProgramFairSpec
CONSTANTS
  binary = binary
  image = image
  none = none
  ArtifactTypes <- MCTypes
  NoArtifact = none
  BuildSteps <- BuildOne
  TestSteps <- ParPar
  DeployArtifact = none
  MaxFaults = 1
PROPERTIES
  CancelStops
  GatedSpec
