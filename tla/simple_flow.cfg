CONSTANTS
  Strategies = {"on-policy", "one-step-off"}
  PromptPerIter = 2
  TrainIters = 3
  NumPrompts = 7
  AllowErrors = TRUE
  GenMayFail = TRUE
SPECIFICATION FairSpec
INVARIANTS
  FreshRollouts
  Lookahead
  GatedStream
PROPERTY StreamSpec
