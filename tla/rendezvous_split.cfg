CONSTANTS
  Procs = {p1, p2, p3}
  Clients = {p3}
  MayFail = FALSE
  MayAge = FALSE
  NoFile = NoFile
  Empty = Empty
SPECIFICATION Spec
INVARIANT OneMeetingPoint
CHECK_DEADLOCK FALSE
