CONSTANTS
  Plans <- PPOPlans
  Published <- CCPublished
  NumLayers <- CCLayers
  MoELayers <- CCMoELayers
  NumExperts <- CCExperts
  KVHeads <- CCHeads
  HeadDim <- CCHeadDim
  GateDims <- CCGates
  Vocab <- CCVocab
SPECIFICATION Spec
INVARIANT ShardsRestored
CHECK_DEADLOCK FALSE
