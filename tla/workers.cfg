CONSTANTS
  Workers = {w1, w2}
  Cap = 2
  Submits = 2
  Batches = 2
  BatchSize = 1
  MayRaise = TRUE
  MayShut = TRUE
  Ranks = {r1, r2}
  TrainIters = 4
  SaveInterval = 1
  Parts = 2
  MayFail = TRUE
  Procs = {p1, p2, p3, p4}
  Clients = {p4}
  MayAge = TRUE
  NoFile = NoFile
  Empty = Empty
SPECIFICATION MCSpec
INVARIANTS
  ExactCap
  OwnCallback
  LatestComplete
  BoundedBacklog
PROPERTIES
  TrustedPort
  CalledBack
  NeverBack
  SavesLand
CHECK_DEADLOCK FALSE
