SPECIFICATION FairSpec
CONSTANTS
  binary = binary
  image = image
  none = none
  ArtifactTypes <- MCTypes
  NoArtifact = none
  BuildSteps <- BuildOne
  TestSteps <- ParPar
  DeployArtifact = image
  MaxFaults = 1
PROPERTY HangsOnlyOnVanishedJob
PROPERTY SucceedsWhenAllPass
