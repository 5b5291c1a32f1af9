SPECIFICATION Spec
CONSTANTS
  binary = binary
  image = image
  none = none
  ArtifactTypes <- MCTypes
  NoArtifact = none
  BuildSteps <- BuildTwo
  TestSteps <- TwoBlocks
  DeployArtifact = image
  MaxFaults = 1
INVARIANTS
  TypeOK
  Inv
  StageGate
  JoinBeforeClose
  DeploysFirstDeclared
  NoFalseSuccess
  StepRowTruth
  RowTimes
  ReturnAgrees
  OrphansAreExplained
  GroupsAreBlocks
PROPERTY
  StatusesFollowFsm
