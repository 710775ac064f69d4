CONSTANTS
  Strategies = {"one-step-off"}
  PromptPerIter = 2
  TrainIters = 2
  NumPrompts = 6
  AllowErrors = TRUE
  GenMayFail = FALSE
  MaxCrashes = 1
SPECIFICATION ResumeSpec
INVARIANT NothingDropped
