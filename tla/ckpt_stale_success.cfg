CONSTANTS
  Ranks = {r1, r2}
  TrainIters = 5
  SaveInterval = 2
  Parts = 1
  AsyncDump = TRUE
  MayFail = FALSE
  MaxCrashes = 1
SPECIFICATION Spec
SYMMETRY RankSymmetry
INVARIANT LatestComplete
