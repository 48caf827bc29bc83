SPECIFICATION Spec
CONSTANTS
  Nodes <- RunNodes
  NumLayers = 2
  LayerOf <- RunLayerOf
  ChanCap = 1
  MayDisconnect = TRUE
  MaxLost = 0
INVARIANTS
  FinalOutcomePersisted
CHECK_DEADLOCK FALSE
