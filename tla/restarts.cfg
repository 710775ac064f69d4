CONSTANTS
  Strategies = {"on-policy", "one-step-off"}
  PromptPerIter = 1
  MaxUntrainedPrompts = 1
  MaxStaleness = 0
  TrainIters = 2
  NumPrompts = 3
  AllowErrors = FALSE
  GenMayFail = TRUE
  MaxCrashes = 1
  Ranks = {r1, r2}
  SaveIters = 4
  SaveInterval = 2
  Parts = 2
  Replicas = {n1, n2}
  Requests = {q1}
  Deploys = 1
SPECIFICATION MCSpec
SYMMETRY RankSymmetry
CONSTRAINT CleanRuns
INVARIANTS
  AsyncResumes
  WedgesOnlyRestored
  SimpleResumes
  ResumeFresh
  OneRunComplete
  FreshAnswers
  Restored
CHECK_DEADLOCK FALSE
