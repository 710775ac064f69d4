CONSTANTS
  PromptPerIter = 2
  MaxUntrainedPrompts = 1
  MaxStaleness = 0
  TrainIters = 3
  NumPrompts = 7
  AllowErrors = TRUE
  GenMayFail = TRUE
  Setups <- MCSetups
  Rollouts <- MCRollouts
  SeqLength = 6
  Iterations = 1
SPECIFICATION MCSpec
INVARIANTS
  TypeOK
  Backpressure
  BoundedLag
  VersionGate
  SimulatorFollows
  AlignedUpdate
  OnDevice
PROPERTIES
  StreamSpec
  NeverIdles
