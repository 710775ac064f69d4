CONSTANT
  Configs <- Pp2Configs
SPECIFICATION Spec
INVARIANT RightTensors
CHECK_DEADLOCK FALSE
