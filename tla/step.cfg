CONSTANTS
  NumDatasets = 2
  LenChoices <- MCLenChoices
  EpochChoices = {2, 5, 6, 10}
  Unit = 5
  MaxLength = 3
  NumWorkers = 2
  QueueSize = 2
  Prefetch = 1
  DPSize = 2
  DPRank = 1
  Size = 3
  Saved = {}
  MayFail = TRUE
  MaxTakes = 3
  MaxLoads = 1
SPECIFICATION MCSpec
INVARIANTS
  FairShare
  EpochsHonoured
  ExactPacks
  RightTensors
  BoundedActivations
  LayersDense
  ExpertsDense
  KernelsExact
  StepIsDense
PROPERTIES
  SequentialSpec
  CallReturns
  StepCompletes
CHECK_DEADLOCK FALSE
