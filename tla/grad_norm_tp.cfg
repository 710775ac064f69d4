CONSTANTS
  Configs <- MCConfigs
  Params <- MCParams
  MicroBatches = 1
  Steps = 1
SPECIFICATION Spec
INVARIANT NormIsDense
CHECK_DEADLOCK FALSE
