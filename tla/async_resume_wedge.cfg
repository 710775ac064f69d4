CONSTANTS
  PromptPerIter = 1
  MaxUntrainedPrompts = 1
  MaxStaleness = 0
  TrainIters = 2
  NumPrompts = 4
  AllowErrors = TRUE
  GenMayFail = FALSE
  MaxCrashes = 1
SPECIFICATION ResumeFairSpec
PROPERTY ResumeSyncs
CHECK_DEADLOCK FALSE
