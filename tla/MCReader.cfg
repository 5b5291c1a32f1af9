SPECIFICATION ReaderSpec
CONSTANTS
  image = image
  none = none
  ArtifactTypes = {image}
  NoArtifact = none
  BuildSteps <- BuildOne
  TestSteps <- TestOne
  DeployArtifact = none
  MaxFaults = 1
INVARIANTS
  ViewInv
  ReaderInv
  JobsAreBeginnings
PROPERTIES
  ReadsAgree
  SuccessIsWhole
  ClosedIsAtRest
